---------------------------- MODULE Spec2Model ----------------------------
(***************************************************************************)
(* A model of the copy_link plugin (src/main.ts, the second, complete      *)
(* version of the file, lines 151-414): the copy flow (MyPlugin.copyLink), *)
(* the search session (MyPlugin.matchLink, SearchModal) and the settings   *)
(* field.                                                                  *)
(*                                                                         *)
(* A JavaScript string is a sequence of one-character strings, so that     *)
(* trim, startsWith, replace, replaceAll, split, substring, lastIndexOf,   *)
(* toLowerCase, includes and the regular expressions are computed          *)
(* character by character, as the engine computes them.  Positions handed  *)
(* to and returned by the String operators are JavaScript's (0-based).     *)
(***************************************************************************)
EXTENDS Integers, Sequences, FiniteSets, TLC

VARIABLES
    linkFormat,   \* MyPlugin.settings.linkFormat
    copies,       \* the copyLink invocations so far, one record each
    vault,        \* app.vault.getMarkdownFiles(), each with its content
    modal,        \* the SearchModal: "none", "open" or "closed"
    inputValue,   \* the value of the modal's searchInput
    query,        \* SearchModal.query
    format,       \* SearchModal.format
    container,    \* the children of resultsContainer, in order
    calls,        \* the searchHeadings calls suspended at an await
    raced,        \* a searchHeadings call has run while another was suspended
    lastClick,    \* what the last click on a result element did
    replaced,     \* the arguments of editor.replaceSelection so far
    notices       \* the Notices of the search flow so far

vars == << linkFormat, copies, vault, modal, inputValue, query, format,
           container, calls, raced, lastClick, replaced, notices >>

copyVars == << linkFormat, copies >>

searchVars == << vault, modal, inputValue, query, format, container, calls,
                 raced, lastClick, replaced, notices >>

-----------------------------------------------------------------------------
(* Bounds of the model.                                                    *)

\* copyLink invocations in one behaviour
MaxCopies == 1

\* searchHeadings calls suspended at the same time
MaxCalls == 2

\* Notices of the search flow that report a failure, in one behaviour
MaxNotices == 1

-----------------------------------------------------------------------------
(* Characters.                                                             *)

\* the white space \s and trim() strip, among the characters of the model
WhiteSpace == {" ", "\t", "\n", "\r"}

\* the line terminators: what "." does not match and "^", "$" (flag m) see
LineTerminator == {"\n", "\r"}

UpperCase == << "A", "B", "C", "D", "E", "F", "G", "H", "I", "J", "K", "L", "M",
                "N", "O", "P", "Q", "R", "S", "T", "U", "V", "W", "X", "Y", "Z" >>

LowerCase == << "a", "b", "c", "d", "e", "f", "g", "h", "i", "j", "k", "l", "m",
                "n", "o", "p", "q", "r", "s", "t", "u", "v", "w", "x", "y", "z" >>

ToLowerChar(c) ==
    IF \E i \in 1..26 : UpperCase[i] = c
    THEN LowerCase[CHOOSE i \in 1..26 : UpperCase[i] = c]
    ELSE c

-----------------------------------------------------------------------------
(* String.prototype, as far as the plugin uses it.                         *)

\* s.toLowerCase()
ToLowerCase(s) == [i \in 1..Len(s) |-> ToLowerChar(s[i])]

\* s.startsWith(p)
StartsWith(s, p) == Len(p) <= Len(s) /\ SubSeq(s, 1, Len(p)) = p

\* s.includes(q)
Includes(s, q) ==
    \E i \in 0..(Len(s) - Len(q)) : SubSeq(s, i + 1, i + Len(q)) = q

\* s.lastIndexOf(c) for a one-character c: -1 when c does not occur
LastIndexOf(s, c) ==
    IF \E i \in 1..Len(s) : s[i] = c
    THEN (CHOOSE i \in 1..Len(s) :
              s[i] = c /\ \A j \in (i + 1)..Len(s) : s[j] # c) - 1
    ELSE -1

\* s.substring(a, b): both ends clamped to 0..length, and swapped if a > b
Substring(s, a, b) ==
    LET clamp(n) == IF n < 0 THEN 0 ELSE IF n > Len(s) THEN Len(s) ELSE n
        lo == IF clamp(a) <= clamp(b) THEN clamp(a) ELSE clamp(b)
        hi == IF clamp(a) <= clamp(b) THEN clamp(b) ELSE clamp(a)
    IN  SubSeq(s, lo + 1, hi)

\* s.substring(a)
SubstringFrom(s, a) == Substring(s, a, Len(s))

\* s.trim()
Trim(s) ==
    LET inner == {i \in 1..Len(s) : s[i] \notin WhiteSpace}
    IN  IF inner = {} THEN << >>
        ELSE SubSeq(s, CHOOSE i \in inner : \A j \in inner : i <= j,
                       CHOOSE i \in inner : \A j \in inner : j <= i)

\* s.split(c) for a one-character c
RECURSIVE Split(_, _)
Split(s, c) ==
    IF \A i \in 1..Len(s) : s[i] # c THEN << s >>
    ELSE LET k == CHOOSE i \in 1..Len(s) :
                      s[i] = c /\ \A j \in 1..(i - 1) : s[j] # c
         IN  << SubSeq(s, 1, k - 1) >> \o Split(SubSeq(s, k + 1, Len(s)), c)

\* GetSubstitution of a replacement string for a match of a string pattern
\* (no captures): "$$" is "$", "$&" is the match, and every other character
\* stands for itself.  (The two patterns of "$" with a grave accent or an
\* apostrophe do not arise: no string of the model holds these characters.)
RECURSIVE GetSubstitution(_, _, _, _)
GetSubstitution(matched, str, position, replacement) ==
    IF replacement = << >> THEN << >>
    ELSE IF replacement[1] = "$" /\ Len(replacement) >= 2
              /\ replacement[2] \in {"$", "&"}
    THEN (IF replacement[2] = "$" THEN << "$" >> ELSE matched)
         \o GetSubstitution(matched, str, position,
                            SubSeq(replacement, 3, Len(replacement)))
    ELSE << replacement[1] >>
         \o GetSubstitution(matched, str, position,
                            SubSeq(replacement, 2, Len(replacement)))

\* the part of s.replaceAll(pattern, replacement) from position p on: the
\* occurrences of the pattern are found left to right in s itself, without
\* overlap, and what a replacement inserts is not searched
RECURSIVE ReplaceAllFrom(_, _, _, _)
ReplaceAllFrom(s, pattern, replacement, p) ==
    IF p >= Len(s) THEN << >>
    ELSE IF p + Len(pattern) <= Len(s)
              /\ SubSeq(s, p + 1, p + Len(pattern)) = pattern
    THEN GetSubstitution(pattern, s, p, replacement)
         \o ReplaceAllFrom(s, pattern, replacement, p + Len(pattern))
    ELSE << s[p + 1] >> \o ReplaceAllFrom(s, pattern, replacement, p + 1)

\* s.replaceAll(pattern, replacement), a non-empty string pattern
ReplaceAll(s, pattern, replacement) == ReplaceAllFrom(s, pattern, replacement, 0)

-----------------------------------------------------------------------------
(* The regular expressions.                                                *)

\* the number of characters c at the start of s, for c in the set cs
RECURSIVE RunLength(_, _)
RunLength(s, cs) ==
    IF s # << >> /\ s[1] \in cs
    THEN 1 + RunLength(SubSeq(s, 2, Len(s)), cs)
    ELSE 0

\* s.replace(/^#+\s*/, ''): without the flag m, "^" is the start of s only
StripHeadingMarker(s) ==
    LET hashes == RunLength(s, {"#"})
        rest == SubSeq(s, hashes + 1, Len(s))
    IN  IF hashes = 0 THEN s
        ELSE SubSeq(rest, RunLength(rest, WhiteSpace) + 1, Len(rest))

\* s.replace(/\.md$/, ''): without the flag m, "$" is the end of s only
StripMdExtension(s) ==
    IF Len(s) >= 3 /\ SubSeq(s, Len(s) - 2, Len(s)) = << ".", "m", "d" >>
    THEN SubSeq(s, 1, Len(s) - 3)
    ELSE s

\* the end (exclusive) of the match of /^#+\s.*$/m that starts at position p
\* of s, or -1 when there is none: "^" holds at 0 and after a line terminator,
\* "#+" takes the whole run, "\s" any one white space (a line terminator
\* too), ".*" the rest of that line, where "$" holds
HeadingMatchEnd(s, p) ==
    LET atLineStart == p = 0 \/ s[p] \in LineTerminator
        hashes == RunLength(SubSeq(s, p + 1, Len(s)), {"#"})
        q == p + hashes
        afterSpace == SubSeq(s, q + 2, Len(s))
    IN  IF atLineStart /\ hashes >= 1 /\ q < Len(s) /\ s[q + 1] \in WhiteSpace
        THEN q + 1 + RunLength(afterSpace,
                               {afterSpace[i] : i \in 1..Len(afterSpace)}
                                   \ LineTerminator)
        ELSE -1

\* the matches of /^#+\s.*$/gm in s from position p on, in order: each search
\* starts where the last match ended
RECURSIVE MatchHeadingsFrom(_, _)
MatchHeadingsFrom(s, p) ==
    IF p >= Len(s) THEN << >>
    ELSE LET e == HeadingMatchEnd(s, p)
         IN  IF e >= 0
             THEN << SubSeq(s, p + 1, e) >> \o MatchHeadingsFrom(s, e)
             ELSE MatchHeadingsFrom(s, p + 1)

\* content.match(/^#+\s.*$/gm) || []
MatchHeadings(content) == MatchHeadingsFrom(content, 0)

-----------------------------------------------------------------------------
(* The placeholders and the settings.                                      *)

\* '${fileDir}'
TokFileDir == << "$", "{", "f", "i", "l", "e", "D", "i", "r", "}" >>

\* '${fileBasename}'
TokFileBasename == << "$", "{", "f", "i", "l", "e", "B", "a", "s", "e", "n", "a", "m", "e", "}" >>

\* '${headingText}'
TokHeadingText == << "$", "{", "h", "e", "a", "d", "i", "n", "g", "T", "e", "x", "t", "}" >>

\* DEFAULT_SETTINGS.linkFormat
DEFAULT_SETTINGS ==
    [linkFormat |-> TokFileDir \o << "/" >> \o TokFileBasename \o << "#" >>
                    \o TokHeadingText \o << "|" >> \o TokHeadingText]

\* the values typed into the 'link format' field of the settings tab
LinkFormats ==
    { DEFAULT_SETTINGS.linkFormat,
      TokHeadingText,
      TokFileBasename \o << "/" >> \o TokFileDir }

\* "[[" + format.replaceAll('${fileDir}', fileDir)
\*            .replaceAll('${fileBasename}', fileBasename)
\*            .replaceAll('${headingText}', headingText) + "]]"
WikiLink(fmt, fileDir, fileBasename, headingText) ==
    << "[", "[" >>
    \o ReplaceAll(ReplaceAll(ReplaceAll(fmt, TokFileDir, fileDir),
                             TokFileBasename, fileBasename),
                  TokHeadingText, headingText)
    \o << "]", "]" >>

\* the settings tab's onChange: settings.linkFormat = value, then saved
SetLinkFormat(value) ==
    /\ linkFormat' = value
    /\ UNCHANGED << copies, searchVars >>

-----------------------------------------------------------------------------
(* The copy flow: MyPlugin.copyLink.                                       *)

\* a JavaScript value that is null or a string
NullValue == [isNull |-> TRUE, text |-> << >>]

StringValue(s) == [isNull |-> FALSE, text |-> s]

\* !v for such a value: null and the empty string are falsy
Falsy(v) == v.isNull \/ v.text = << >>

\* view.file of a view with no file
NullFile == [isNull |-> TRUE, path |-> << >>, basename |-> << >>]

\* the loop of copyLink from line i down to line 0: the heading text of the
\* first line that, trimmed, starts with '#', or null when there is none
RECURSIVE ScanUp(_, _)
ScanUp(lines, i) ==
    IF i < 0 THEN NullValue
    ELSE LET line == Trim(lines[i + 1])
         IN  IF StartsWith(line, << "#" >>)
             THEN StringValue(StripHeadingMarker(line))
             ELSE ScanUp(lines, i - 1)

\* the callbacks of navigator.clipboard.writeText(targetLink): then() shows
\* the success Notice, catch() only logs to the console
ClipboardSettled(c, ok) ==
    IF ok
    THEN [c EXCEPT !.promise = "fulfilled",
                   !.notices = Append(@, "Wiki link copied to clipboard!")]
    ELSE [c EXCEPT !.promise = "rejected"]

\* copyLink without the return after the 'No file' Notice: the link is built
\* from the missing file's empty path and written to the clipboard
CopyLinkRunNoReturn(text, cursorLine, file, fmt) ==
    LET lines == Split(text, "\n")
        headingText == ScanUp(lines, cursorLine)
        base == [text |-> text, line |-> cursorLine, file |-> file,
                 format |-> fmt, heading |-> headingText, link |-> << >>,
                 writes |-> 0, promise |-> "none"]
    IN  IF Falsy(headingText)
        THEN base @@ [outcome |-> "NoHeadingFound",
                      notices |-> << "No heading found above the current cursor position." >>]
        ELSE [base EXCEPT !.link = WikiLink(fmt,
                                       Substring(file.path, 0,
                                                 LastIndexOf(file.path, "/")),
                                       file.basename, headingText.text),
                          !.writes = 1,
                          !.promise = "pending"]
             @@ [outcome |-> IF file.isNull THEN "NoAssociatedFile"
                             ELSE "ClipboardWrite",
                 notices |-> IF file.isNull
                             THEN << "No file is associated with the current view." >>
                             ELSE << >>]

\* copyLink(view) up to its return, with the settings' format fmt: the record
\* of the invocation
CopyLinkRun(text, cursorLine, file, fmt) ==
    LET lines == Split(text, "\n")
        headingText == ScanUp(lines, cursorLine)
        base == [text |-> text, line |-> cursorLine, file |-> file,
                 format |-> fmt, heading |-> headingText, link |-> << >>,
                 writes |-> 0, promise |-> "none"]
    IN  IF Falsy(headingText)
        THEN base @@ [outcome |-> "NoHeadingFound",
                      notices |-> << "No heading found above the current cursor position." >>]
        ELSE IF file.isNull
        THEN base @@ [outcome |-> "NoAssociatedFile",
                      notices |-> << "No file is associated with the current view." >>]
        ELSE LET fileDir == Substring(file.path, 0, LastIndexOf(file.path, "/"))
                 fileBasename == file.basename
             IN  [base EXCEPT !.link = WikiLink(fmt, fileDir, fileBasename,
                                                headingText.text),
                              !.writes = 1,
                              !.promise = "pending"]
                 @@ [outcome |-> "ClipboardWrite", notices |-> << >>]

\* the editor contents of the views the command is run on
Texts ==
    { << "#", " ", "I", "n", "t", "r", "o", "\n", "t", "e", "x", "t", "\n", "c", "u", "r", "s", "o", "r" >>,
      << "#", " ", "A", "\n", "#", "\n", "b" >>,
      << "b", "\n", " ", " ", "#", "#", " ", "T", " ", " " >>,
      << "#", " ", "#", "a" >>,
      << "#", "a", "\n", "#", " ", "$", "$" >>,
      << "#", " ", "$", "{", "f", "i", "l", "e", "D", "i", "r", "}" >> }

\* view.file of the views the command is run on: path and basename
ViewFiles ==
    { NullFile,
      [isNull |-> FALSE,
       path |-> << "f", "o", "l", "d", "e", "r", "/", "n", "o", "t", "e", ".", "m", "d" >>,
       basename |-> << "n", "o", "t", "e" >>],
      [isNull |-> FALSE, path |-> << "n", ".", "m", "d" >>, basename |-> << "n" >>],
      [isNull |-> FALSE, path |-> << "a", "/", "b", "/", "c", ".", "m", "d" >>,
       basename |-> << "c" >>],
      [isNull |-> FALSE, path |-> << "$", "{", "h", "e", "a", "d", "i", "n", "g", "T", "e", "x", "t", "}", "/", "n", ".", "m", "d" >>,
       basename |-> << "n" >>] }

\* the command 'copy link' or the menu item 'Copy link' on a view
CopyLink ==
    /\ Len(copies) < MaxCopies
    /\ \E text \in Texts, file \in ViewFiles :
          \E cursorLine \in 0..(Len(Split(text, "\n")) - 1) :
             copies' = Append(copies,
                              CopyLinkRun(text, cursorLine, file, linkFormat))
    /\ UNCHANGED << linkFormat, searchVars >>

\* the promise of a clipboard write is fulfilled
ClipboardFulfilled ==
    /\ \E i \in 1..Len(copies) :
          /\ copies[i].promise = "pending"
          /\ copies' = [copies EXCEPT ![i] = ClipboardSettled(@, TRUE)]
    /\ UNCHANGED << linkFormat, searchVars >>

\* the promise of a clipboard write is rejected
ClipboardRejected ==
    /\ \E i \in 1..Len(copies) :
          /\ copies[i].promise = "pending"
          /\ copies' = [copies EXCEPT ![i] = ClipboardSettled(@, FALSE)]
    /\ UNCHANGED << linkFormat, searchVars >>

-----------------------------------------------------------------------------
(* The search session: MyPlugin.matchLink and SearchModal.                 *)

\* the result elements searchHeadings creates for one file, in order: one
\* for each match of the heading expression whose lower-cased text includes
\* the query q, as it stands, carrying data-path, data-heading and the
\* click handler's file
FileResults(fi, q) ==
    LET file == vault[fi]
        headings == MatchHeadings(file.content)
        hit == {i \in 1..Len(headings) : Includes(ToLowerCase(headings[i]), q)}
        nth(n) == CHOOSE i \in hit : Cardinality({j \in hit : j <= i}) = n
    IN  [n \in 1..Cardinality(hit) |->
            [dataPath |-> file.path,
             dataHeading |-> StripHeadingMarker(headings[nth(n)]),
             file |-> fi]]

\* the start of searchHeadings(container): the container is emptied, and the
\* call is suspended at the read of the first file, if there is one
StartSearch ==
    /\ container' = << >>
    /\ calls' = IF Len(vault) = 0 THEN calls ELSE Append(calls, 1)
    /\ raced' = (calls # << >>)

\* the selection is empty, after toLowerCase(): !selectedText
NoSelection(selectedText) == selectedText = << >>

\* matchLink(editor, view) on the selection, and, unless it is empty,
\* new SearchModal(...).open(): onOpen sets the input and starts the search.
\* A behaviour follows one SearchModal: a later one is another object with
\* its own query, format and container.
MatchLink(selection) ==
    /\ modal = "none"
    /\ LET selectedText == ToLowerCase(selection)
       IN  IF NoSelection(selectedText)
           THEN /\ Len(notices) < MaxNotices
                /\ notices' = Append(notices, "No text selected!")
                /\ UNCHANGED << modal, inputValue, query, format, container,
                                calls, raced >>
           ELSE /\ modal' = "open"
                /\ query' = selectedText
                /\ format' = linkFormat
                /\ inputValue' = selectedText
                /\ StartSearch
                /\ UNCHANGED notices
    /\ UNCHANGED << copyVars, vault, lastClick, replaced >>

\* searchInput.onChange(value): the query is the value, and a search starts
InputChanged(value) ==
    /\ modal = "open"
    /\ value # inputValue
    /\ Len(calls) < MaxCalls
    /\ inputValue' = value
    /\ query' = value
    /\ StartSearch
    /\ UNCHANGED << copyVars, vault, modal, format, lastClick, replaced,
                    notices >>

\* the read a suspended searchHeadings call awaits is done: the call appends
\* the results of that file, found with the query as it is now, and goes on
\* to the read of the next file, or returns after the last one
ReadDone(k) ==
    /\ k \in 1..Len(calls)
    /\ container' = container \o FileResults(calls[k], query)
    /\ calls' = IF calls[k] < Len(vault)
                THEN [calls EXCEPT ![k] = @ + 1]
                ELSE [i \in 1..(Len(calls) - 1) |->
                         IF i < k THEN calls[i] ELSE calls[i + 1]]
    /\ UNCHANGED << copyVars, vault, modal, inputValue, query, format, raced,
                    lastClick, replaced, notices >>

\* the check of the click handler with the heading forgotten: !filePath
IncompletePathOnly(el) == el.dataPath = << >>

\* !filePath || !selectedHeading, for the attributes of a result element
Incomplete(el) == el.dataPath = << >> \/ el.dataHeading = << >>

\* the link the click handler of a result element builds
MatchedLink(el) ==
    LET filePath == StripMdExtension(el.dataPath)
        fileBasename == SubstringFrom(filePath, LastIndexOf(filePath, "/") + 1)
        fileDir == Substring(filePath, 0,
                             LastIndexOf(vault[el.file].path, "/"))
    IN  WikiLink(format, fileDir, fileBasename, el.dataHeading)

\* before any click
NoClick == [dataPath |-> << >>, dataHeading |-> << >>, outcome |-> "none"]

\* a click on the k-th result element of the open modal
Click(k) ==
    /\ modal = "open"
    /\ k \in 1..Len(container)
    /\ LET el == container[k]
       IN  IF Incomplete(el)
           THEN /\ Len(notices) < MaxNotices
                /\ notices' = Append(notices,
                                     "Failed to retrieve file path or heading.")
                /\ lastClick' = [dataPath |-> el.dataPath,
                                 dataHeading |-> el.dataHeading,
                                 outcome |-> "failed"]
                /\ UNCHANGED << modal, replaced >>
           ELSE /\ replaced' = Append(replaced, MatchedLink(el))
                /\ notices' = Append(notices, "Text replaced with link.")
                /\ lastClick' = [dataPath |-> el.dataPath,
                                 dataHeading |-> el.dataHeading,
                                 outcome |-> "replaced"]
                /\ modal' = "closed"
    /\ UNCHANGED << copyVars, vault, inputValue, query, format, container,
                    calls, raced >>

\* the user closes the modal: onClose empties contentEl
CloseModal ==
    /\ modal = "open"
    /\ modal' = "closed"
    /\ UNCHANGED << copyVars, vault, inputValue, query, format, container,
                    calls, raced, lastClick, replaced, notices >>

\* the vaults of the model: path and content of each Markdown file, in the
\* order of getMarkdownFiles()
Vaults ==
    { << [path |-> << "x", "/", "y", ".", "m", "d" >>,
          content |-> << "#", " ", "I", "n", "t", "r", "o", "\n", "#", "#", " ", "a" >>] >>,
      << [path |-> << "n", ".", "m", "d" >>,
          content |-> << "#", "a", "\n", "#", " " >>],
         [path |-> << "d", "/", "e", ".", "m", "d" >>,
          content |-> << "#", " ", "a", " ", "\n", " ", " ", "#", " ", "b" >>] >>,
      << >> }

\* the selections matchLink is run on
Selections == { << >>, << "a" >>, << "I", "n", "t", "r", "o" >> }

\* the values the user leaves in the search input
InputValues == { << >>, << "a" >>, << "I", "n", "t", "r", "o" >> }

-----------------------------------------------------------------------------
(* The specifications.                                                     *)

\* after onload, with no saved settings; no command has run
Init ==
    /\ linkFormat = DEFAULT_SETTINGS.linkFormat
    /\ copies = << >>
    /\ vault \in Vaults
    /\ modal = "none"
    /\ inputValue = << >>
    /\ query = << >>
    /\ format = << >>
    /\ container = << >>
    /\ calls = << >>
    /\ raced = FALSE
    /\ lastClick = NoClick
    /\ replaced = << >>
    /\ notices = << >>

\* the copy flow, on a vault that does not matter to it
InitCopy == Init /\ vault = << >>

NextCopy ==
    \/ \E value \in LinkFormats : SetLinkFormat(value)
    \/ CopyLink
    \/ ClipboardFulfilled
    \/ ClipboardRejected

SpecCopy == InitCopy /\ [][NextCopy]_vars

NextSearch ==
    \/ \E value \in LinkFormats : SetLinkFormat(value)
    \/ \E selection \in Selections : MatchLink(selection)
    \/ \E value \in InputValues : InputChanged(value)
    \/ \E k \in 1..MaxCalls : ReadDone(k)
    \/ \E k \in 1..Len(container) : Click(k)
    \/ CloseModal

SpecSearch == Init /\ [][NextSearch]_vars

-----------------------------------------------------------------------------
(* What the claims speak of.                                               *)

\* the elements of a sequence
Range(seq) == {seq[i] : i \in 1..Len(seq)}

\* the invocations of copyLink that wrote to the clipboard
Written == {c \in Range(copies) : c.writes > 0}

\* a line is a heading line: trimmed, it starts with '#'
IsHeadingLine(line) == StartsWith(Trim(line), << "#" >>)

\* the heading lines among lines 0..c of a text
HeadingLinesUpTo(text, c) ==
    {i \in 0..c : IsHeadingLine(Split(text, "\n")[i + 1])}

\* the greatest element of a non-empty set of numbers
Greatest(S) == CHOOSE i \in S : \A j \in S : j <= i

\* the part of a path before its last separator
DirOf(path) == SubSeq(path, 1, LastIndexOf(path, "/"))

\* a heading text as the data model has it: no '#' at its start, no white
\* space around it
CleanHeadingText(t) ==
    t = << >> \/ (t[1] # "#" /\ t[1] \notin WhiteSpace
                  /\ t[Len(t)] \notin WhiteSpace)

\* a template rendered in one pass from left to right: each placeholder
\* gives its value as it is, and no value is looked at again
RECURSIVE RenderVerbatim(_, _, _, _)
RenderVerbatim(t, fileDir, fileBasename, headingText) ==
    LET rest(n) == RenderVerbatim(SubSeq(t, n + 1, Len(t)), fileDir,
                                  fileBasename, headingText)
    IN  IF t = << >> THEN << >>
        ELSE IF StartsWith(t, TokFileDir)
        THEN fileDir \o rest(Len(TokFileDir))
        ELSE IF StartsWith(t, TokFileBasename)
        THEN fileBasename \o rest(Len(TokFileBasename))
        ELSE IF StartsWith(t, TokHeadingText)
        THEN headingText \o rest(Len(TokHeadingText))
        ELSE << t[1] >> \o rest(1)

\* a template after replaceAll passes, each a pair of token and value, in
\* the order given
RECURSIVE ApplyPasses(_, _)
ApplyPasses(t, passes) ==
    IF passes = << >> THEN t
    ELSE ApplyPasses(ReplaceAll(t, passes[1][1], passes[1][2]),
                     SubSeq(passes, 2, Len(passes)))

\* the six orders of three passes
PassOrders ==
    { << 1, 2, 3 >>, << 1, 3, 2 >>, << 2, 1, 3 >>,
      << 2, 3, 1 >>, << 3, 1, 2 >>, << 3, 2, 1 >> }

\* the link of a template and three values with the passes in a given order
LinkInOrder(t, fileDir, fileBasename, headingText, order) ==
    LET passes == << << TokFileDir, fileDir >>,
                     << TokFileBasename, fileBasename >>,
                     << TokHeadingText, headingText >> >>
    IN  << "[", "[" >>
        \o ApplyPasses(t, [i \in 1..3 |-> passes[order[i]]])
        \o << "]", "]" >>

\* a path of the form dir/base.md, dir not empty
IsDirBaseMd(path) ==
    /\ LastIndexOf(path, "/") > 0
    /\ StripMdExtension(path) # path

\* the last segment of such a path, without the extension
BaseOf(path) ==
    LET stripped == StripMdExtension(path)
    IN  SubSeq(stripped, LastIndexOf(path, "/") + 2, Len(stripped))

\* "[[" + dir + "/" + base + "#" + h + "|" + h + "]]"
DefaultLink(dir, base, h) ==
    << "[", "[" >> \o dir \o << "/" >> \o base \o << "#" >> \o h
    \o << "|" >> \o h \o << "]", "]" >>

-----------------------------------------------------------------------------
(* The claims on the copy flow, on heading texts and on the links.         *)

\* C3: template rendering never rescans inserted values: in every link the
\* copy flow wrote and every link the search flow inserted, each placeholder
\* of the template stands replaced by its value as it is, whatever the values
\* contain.
C3_NoRescan ==
    /\ \A c \in Written :
          c.link = << "[", "[" >>
                   \o RenderVerbatim(c.format, DirOf(c.file.path),
                                     c.file.basename, c.heading.text)
                   \o << "]", "]" >>
    /\ lastClick.outcome = "replaced" =>
          replaced[Len(replaced)]
             = << "[", "[" >>
               \o RenderVerbatim(format, DirOf(lastClick.dataPath),
                                 BaseOf(lastClick.dataPath),
                                 lastClick.dataHeading)
               \o << "]", "]" >>

\* C4: the heading copyLink resolves is the text of the heading line with the
\* greatest index at or above the cursor line, and 'No heading found' is
\* reported if and only if no line from 0 to the cursor line is a heading line.
C4_NearestHeading ==
    \A c \in Range(copies) :
       LET above == HeadingLinesUpTo(c.text, c.line)
       IN  /\ (c.outcome = "NoHeadingFound") <=> (above = {})
           /\ above # {} =>
                 /\ ~c.heading.isNull
                 /\ c.heading.text
                       = StripHeadingMarker(
                            Trim(Split(c.text, "\n")[Greatest(above) + 1]))

\* C5: no heading text the program produces, in the copy flow or in the
\* search flow, starts with '#' or has white space at either end.
C5_CleanHeadingText ==
    /\ \A c \in Range(copies) :
          ~c.heading.isNull => CleanHeadingText(c.heading.text)
    /\ \A k \in 1..Len(container) : CleanHeadingText(container[k].dataHeading)

\* C7: an invocation of copyLink that ends with NoHeadingFound or
\* NoAssociatedFile has shown its Notice and has issued no clipboard write; a
\* clipboard write is issued only with a heading resolved and a file
\* associated; the success Notice is there only once the write has succeeded.
C7_NoWriteOnFailure ==
    \A c \in Range(copies) :
       /\ c.outcome = "NoHeadingFound" =>
             /\ c.writes = 0 /\ c.promise = "none"
             /\ c.notices = << "No heading found above the current cursor position." >>
       /\ c.outcome = "NoAssociatedFile" =>
             /\ c.writes = 0 /\ c.promise = "none"
             /\ c.notices = << "No file is associated with the current view." >>
       /\ (Falsy(ScanUp(Split(c.text, "\n"), c.line)) \/ c.file.isNull) =>
             c.outcome \in {"NoHeadingFound", "NoAssociatedFile"}
       /\ c.writes > 0 =>
             /\ c.writes = 1
             /\ ~Falsy(ScanUp(Split(c.text, "\n"), c.line))
             /\ ~c.file.isNull
       /\ "Wiki link copied to clipboard!" \in Range(c.notices) =>
             c.writes = 1 /\ c.promise = "fulfilled"

\* C7, its case: an invocation on a view with a heading above the cursor and
\* no file has ended with the 'No file' Notice and without a clipboard write.
C7_Witness ==
    \E c \in Range(copies) :
       /\ c.file.isNull
       /\ ~Falsy(c.heading)
       /\ c.outcome = "NoAssociatedFile"
       /\ c.writes = 0

\* C9: with the default template, a path dir/base.md and a heading text h,
\* the copy flow and the search flow both give "[[dir/base#h|h]]".
C9_DefaultLink ==
    /\ \A c \in Written :
          (c.format = DEFAULT_SETTINGS.linkFormat /\ IsDirBaseMd(c.file.path)
           /\ c.file.basename = BaseOf(c.file.path)) =>
             c.link = DefaultLink(DirOf(c.file.path), BaseOf(c.file.path),
                                  c.heading.text)
    /\ (lastClick.outcome = "replaced"
        /\ format = DEFAULT_SETTINGS.linkFormat
        /\ IsDirBaseMd(lastClick.dataPath)) =>
          replaced[Len(replaced)]
             = DefaultLink(DirOf(lastClick.dataPath),
                           BaseOf(lastClick.dataPath), lastClick.dataHeading)

\* C10: the link does not depend on the order of the three substitution
\* passes: each of the six orders gives the link the code's order gave.
C10_OrderIndependent ==
    /\ \A c \in Written :
          \A order \in PassOrders :
             LinkInOrder(c.format, DirOf(c.file.path), c.file.basename,
                         c.heading.text, order) = c.link
    /\ lastClick.outcome = "replaced" =>
          \A order \in PassOrders :
             LinkInOrder(format, DirOf(lastClick.dataPath),
                         BaseOf(lastClick.dataPath), lastClick.dataHeading,
                         order) = replaced[Len(replaced)]

-----------------------------------------------------------------------------
(* The claims on the search session.                                       *)

\* the modal is open and every searchHeadings call started has returned
Quiescent == modal = "open" /\ calls = << >>

\* what one searchHeadings call, run alone with query q, leaves displayed:
\* the results of each file in the order of the vault
RECURSIVE SearchFrom(_, _)
SearchFrom(fi, q) ==
    IF fi > Len(vault) THEN << >>
    ELSE FileResults(fi, q) \o SearchFrom(fi + 1, q)

\* path and heading text of the result elements displayed
Displayed ==
    [k \in 1..Len(container) |->
        << container[k].dataPath, container[k].dataHeading >>]

\* path and heading text of every heading line of a file, by the detection
\* rule of the copy flow, in line order
RECURSIVE LooseHeadings(_, _)
LooseHeadings(path, lines) ==
    IF lines = << >> THEN << >>
    ELSE (IF IsHeadingLine(lines[1])
          THEN << << path, StripHeadingMarker(Trim(lines[1])) >> >>
          ELSE << >>)
         \o LooseHeadings(path, SubSeq(lines, 2, Len(lines)))

\* the same for every file from fi on, in the order of the vault
RECURSIVE AllLooseHeadings(_)
AllLooseHeadings(fi) ==
    IF fi > Len(vault) THEN << >>
    ELSE LooseHeadings(vault[fi].path, Split(vault[fi].content, "\n"))
         \o AllLooseHeadings(fi + 1)

\* C1: once every searchHeadings call started has returned, the result list
\* displayed is exactly the search of the vault with the current query: each
\* matching heading once, in vault order and then heading order.
C1_DisplayedIsSearch == Quiescent => container = SearchFrom(1, query)

\* C2: the query of an open session is the lower-cased input, at its start
\* and after every change of the input, so that with all calls returned every
\* heading whose lower-cased line contains the lower-cased input is displayed.
C2_CaseInsensitive ==
    modal = "open" =>
       /\ query = ToLowerCase(inputValue)
       /\ calls = << >> =>
             \A fi \in 1..Len(vault) :
                \A h \in Range(MatchHeadings(vault[fi].content)) :
                   Includes(ToLowerCase(h), ToLowerCase(inputValue)) =>
                      \E k \in 1..Len(container) :
                         /\ container[k].file = fi
                         /\ container[k].dataHeading = StripHeadingMarker(h)

\* C6: a search with the empty query, run alone, displays every heading line
\* of every file, one result each, in vault order and then line order, where
\* a heading line is one the copy flow takes for a heading: trimmed, it
\* starts with '#'.
C6_EmptyQueryAllHeadings ==
    (Quiescent /\ ~raced /\ query = << >>) => Displayed = AllLooseHeadings(1)

\* C8: the session calls replaceSelection only in a click on a result whose
\* path and heading text are both non-empty, once, and closes with it; a
\* click on a result with an empty path or heading text (the one that shows
\* the 'Failed to retrieve' Notice) replaces nothing and leaves the session
\* open.
C8_ReplaceOnlyComplete ==
    [][ /\ replaced' # replaced =>
              /\ modal = "open" /\ modal' = "closed"
              /\ replaced' = Append(replaced, replaced'[Len(replaced')])
              /\ lastClick'.outcome = "replaced"
              /\ lastClick'.dataPath # << >>
              /\ lastClick'.dataHeading # << >>
              /\ \E k \in 1..Len(container) :
                    /\ container[k].dataPath = lastClick'.dataPath
                    /\ container[k].dataHeading = lastClick'.dataHeading
        /\ (lastClick'.outcome = "failed" /\ notices' # notices) =>
              /\ lastClick'.dataPath = << >> \/ lastClick'.dataHeading = << >>
              /\ replaced' = replaced
              /\ modal = "open" /\ modal' = "open"
        /\ (\E k \in 1..Len(container) :
               /\ lastClick' # lastClick
               /\ container[k].dataPath = lastClick'.dataPath
               /\ container[k].dataHeading = lastClick'.dataHeading
               /\ container[k].dataPath # << >>
               /\ container[k].dataHeading # << >>) =>
              /\ replaced' # replaced
              /\ modal' = "closed"
      ]_vars

\* C8, its cases: a click on a result with an empty heading text has failed,
\* and then a click on a complete result has replaced the selection and
\* closed the session.
C8_Witness ==
    /\ "Failed to retrieve file path or heading." \in Range(notices)
    /\ lastClick.outcome = "replaced"
    /\ Len(replaced) = 1
    /\ modal = "closed"

=============================================================================
